---- MODULE Spec2Model ----
(***************************************************************************)
(* The Eye Test: the processing pipeline of processor/encoder.py           *)
(* (VideoProcessor), the worker thread that runs it (gui/main_window.py,   *)
(* ProcessThread) and the window slots that receive its signals.           *)
(*                                                                         *)
(* Specifications:                                                         *)
(*   Spec        the window starts processing runs, one after the other;   *)
(*               the worker walks VideoProcessor.run while cancel() and    *)
(*               the ffmpeg child run concurrently with it.                *)
(*   SpecFair    Spec with the worker thread and the event loop scheduled  *)
(*               fairly, for termination.                                  *)
(*   SpecFilter  the filter chain built by _apply_ffmpeg_filters, applied  *)
(*               to every job and frame size of a bounded grid.            *)
(*   SpecName    the output names _generate_output_path gives two runs.    *)
(*   SpecGui     the window's slots and buttons with downloads and runs    *)
(*               in flight, the pipeline itself left out.                  *)
(*   SpecFind    _find_ffmpeg over every combination of places where an    *)
(*               ffmpeg executable may exist.                              *)
(*   SpecDownload  the temp directory of VideoDownloader over several runs *)
(*               on URLs of different videos.                              *)
(*   SpecEditor  the occlusion-bar editor (gui/black_bar_editor.py): the   *)
(*               mouse handlers, undo, clear, restore and get_bars.        *)
(***************************************************************************)
EXTENDS Integers, Sequences, FiniteSets

VARIABLES
    pc,            \* where the worker is in ProcessThread.run / VideoProcessor.run
    preview_path,  \* MainWindow.preview_path is set
    job,           \* the VideoProcessor's fields set by __init__
    cancelled,     \* VideoProcessor._cancelled
    disk,          \* environment: what shutil.disk_usage answers for the output folder
    video,         \* environment: the resolved input file as OpenCV sees it
    reported,      \* history: the values passed to progress_callback, in order
    events,        \* history: the steps of run that have started, in order
    temp_cartoon,  \* the temporary cartoon-stage file exists
    out_files,     \* the files in the output folder, by filter tag
    wrote_output,  \* history: this run's ffmpeg child has opened the output path
    cart,          \* locals of _apply_cartoon_opencv
    success,       \* the last stage's return value
    dims,          \* video_width, video_height probed by run
    filters,       \* the filter chain handed to ffmpeg
    child,         \* the ffmpeg child process
    result,        \* how VideoProcessor.run ended
    error,         \* the message of the exception run raised
    emitted,       \* the terminal signals ProcessThread has emitted, in order
    delivered,     \* how many of them the window's slots have handled
    status_label,  \* MainWindow.status_label
    runs,          \* number of processing runs started
    process_btn,   \* ControlsPanel.process_btn is enabled
    load_btn,      \* ControlsPanel.load_preview_btn is enabled
    downloads,     \* DownloadThreads in flight
    threads,       \* ProcessThreads in flight
    name_job,      \* SpecName: an input file name and the filter names of two runs
    names,         \* SpecName: the output names generated for the two runs
    find_env,      \* SpecFind: the places where an ffmpeg executable exists
    ffmpeg_path,   \* SpecFind: what _find_ffmpeg returned
    find_raised,   \* SpecFind: the filter stage raised "ffmpeg not found"
    temp_dir,      \* SpecDownload: the files of VideoDownloader.output_dir
    requested,     \* SpecDownload: the video of the URL being processed
    attempt,       \* SpecDownload: the attempt download_1080p is in
    returned,      \* SpecDownload: what download_1080p returned
    bar_editor,    \* SpecEditor: MainWindow.bar_editor is set
    view,          \* SpecEditor: width and height of the video view
    saved_bars,    \* SpecEditor: MainWindow._saved_bars
    bars,          \* SpecEditor: BlackBarEditor.bars
    current_bar,   \* SpecEditor: BlackBarEditor.current_bar
    start_pos,     \* SpecEditor: BlackBarEditor.start_pos
    normalized     \* SpecEditor: the list the last get_bars call returned

vars == <<pc, preview_path, job, cancelled, disk, video, reported,
          events, temp_cartoon, out_files, wrote_output, cart, success, dims,
          filters, child, result, error, emitted, delivered, status_label, runs,
          process_btn, load_btn, downloads, threads, name_job, names,
          find_env, ffmpeg_path, find_raised, temp_dir, requested, attempt, returned,
          bar_editor, view, saved_bars, bars, current_bar, start_pos,
          normalized>>

\* the variables of the pipeline and of the window's slots
runVars == <<pc, preview_path, job, cancelled, disk, video, reported,
             events, temp_cartoon, out_files, wrote_output, cart, success, dims,
             filters, child, result, error, emitted, delivered, status_label,
             runs>>

\* the window's buttons and threads
guiVars == <<process_btn, load_btn, downloads, threads>>

\* the variables of SpecName
nameVars == <<name_job, names>>

\* the variables of SpecFind
findVars == <<find_env, ffmpeg_path, find_raised>>

\* the variables of SpecDownload
dlVars == <<temp_dir, requested, attempt, returned>>

\* the variables of SpecEditor
edVars == <<bar_editor, view, saved_bars, bars, current_bar, start_pos,
            normalized>>

\* the variables outside the pipeline and the window's buttons
sideVars == <<nameVars, findVars, dlVars, edVars>>

----------------------------------------------------------------------------
(* Bounds of the model *)

\* normalized coordinates are the fractions n / BarDen
BarDen == 4
\* frame sizes of SpecFilter: 1..MaxWidth by 1..MaxHeight
MaxWidth == 6
MaxHeight == 2
\* longest list of occlusion regions of SpecFilter
MaxBars == 2

(* Program constants *)

\* COPYRIGHT_AVOIDANCE['zoom'] = 1.08, in hundredths
ZoomPct == 108
\* the rotation crop is 2% of the longer side
RotCropPct == 2
\* COPYRIGHT_AVOIDANCE['border']
Border == 10

Max(a, b) == IF a >= b THEN a ELSE b
Min(a, b) == IF a <= b THEN a ELSE b

\* Python int() of the quotient n / d (d > 0): truncation towards zero
IntOf(n, d) == IF n >= 0 THEN n \div d ELSE -((-n) \div d)

----------------------------------------------------------------------------
(* _apply_ffmpeg_filters: the filter chain *)

FilterPresets == {"WARM", "COOL"}

Step(op, arg, x, y, w, h) == [op |-> op, arg |-> arg, x |-> x, y |-> y, w |-> w, h |-> h]

ClampPos_Unclamped(v, limit) == v

\* x = max(0, min(x, width - 1)); the same for y with height
ClampPos(v, limit) == Max(0, Min(v, limit - 1))

\* w = max(1, min(w, width - x)); the same for h
ClampLen(len, limit, pos) == Max(1, Min(len, limit - pos))

\* the x the code computes for a region: reflected, whatever self.mirror is
BarX(self, bar, width) == IntOf((BarDen - bar.x - bar.width) * width, BarDen)

\* one drawbox step for one region
DrawBox(self, bar, width, height) ==
    LET x == ClampPos(BarX(self, bar, width), width)
        y == ClampPos(IntOf(bar.y * height, BarDen), height)
        w == ClampLen(IntOf(bar.width * width, BarDen), width, x)
        h == ClampLen(IntOf(bar.height * height, BarDen), height, y)
    IN  Step("drawbox", "black", x, y, w, h)

ColorSteps(self) ==
    IF self.filter_name \in FilterPresets
    THEN <<Step("color", self.filter_name, 0, 0, 0, 0)>>
    ELSE <<>>

\* "Mirror (horizontal flip) - always on"
MirrorSteps(self) == <<Step("hflip", "", 0, 0, 0, 0)>>

BoxSteps(self, width, height) ==
    [i \in 1..Len(self.bars) |-> DrawBox(self, self.bars[i], width, height)]

\* crop=crop_w:crop_h:crop_x:crop_y,scale=width:height  (zoom 1.08 > 1.0)
ZoomSteps(width, height) ==
    LET crop_w == IntOf(width * 100, ZoomPct)
        crop_h == IntOf(height * 100, ZoomPct)
    IN  <<Step("zoom_crop", "", (width - crop_w) \div 2, (height - crop_h) \div 2,
               crop_w, crop_h)>>

\* rotate, then crop the black corners and scale back  (rotation 0.5 # 0)
RotationSteps(width, height) ==
    LET rot_crop == IntOf(Max(width, height) * RotCropPct, 100)
    IN  <<Step("rotate", "", 0, 0, 0, 0),
          Step("rot_crop", "", rot_crop, rot_crop,
               width - 2 * rot_crop, height - 2 * rot_crop)>>

\* pad then crop back, grain, final lanczos scale
TailSteps(width, height) ==
    <<Step("pad_crop", "", Border, Border, width, height),
      Step("noise", "", 0, 0, 0, 0),
      Step("scale", "", 0, 0, width, height)>>

FilterList_BoxesLast(self, width, height) ==
    ColorSteps(self) \o MirrorSteps(self) \o ZoomSteps(width, height)
        \o BoxSteps(self, width, height)
        \o RotationSteps(width, height) \o TailSteps(width, height)

\* the list `filters` in the order the code appends to it
FilterList(self, width, height) ==
    ColorSteps(self) \o MirrorSteps(self) \o BoxSteps(self, width, height)
        \o ZoomSteps(width, height) \o RotationSteps(width, height)
        \o TailSteps(width, height)

\* filter_str = "setpts=...*PTS," + ",".join(filters)
FilterExpr(self, width, height) ==
    <<Step("setpts", "", 0, 0, 0, 0)>> \o FilterList(self, width, height)

----------------------------------------------------------------------------
(* Values of the variables while no run is in progress *)

NoJob == [url |-> FALSE, filter_name |-> "NONE", mirror |-> FALSE,
          bars |-> <<>>, trim_seconds |-> 0]
NoDisk == [query_ok |-> TRUE, free |-> 0]
NoVideo == [openable |-> FALSE, width |-> 0, height |-> 0, fps2 |-> 0,
            total_frames |-> 0, frames |-> 0]
NoCart == [frame_count |-> 0, frames_to_process |-> 0, left |-> 0,
           cap |-> "none", out |-> "none", written |-> 0, in_frame |-> FALSE]
NoChild == [state |-> "none", lines |-> 0, codec_probes |-> 0]

NoRun ==
    /\ cancelled = FALSE
    /\ disk = NoDisk
    /\ video = NoVideo
    /\ reported = <<>>
    /\ events = <<>>
    /\ temp_cartoon = FALSE
    /\ wrote_output = FALSE
    /\ cart = NoCart
    /\ success = FALSE
    /\ child = NoChild
    /\ result = "pending"
    /\ error = ""
    /\ emitted = <<>>
    /\ delivered = 0

\* the window after __init__: process button disabled, no thread started
NoGui ==
    /\ process_btn = FALSE
    /\ load_btn = TRUE
    /\ downloads = 0
    /\ threads = 0

NoNames ==
    /\ name_job = [stem |-> <<>>, filter_a |-> <<>>, filter_b |-> <<>>]
    /\ names = <<>>

NoFind ==
    /\ find_env = {}
    /\ ffmpeg_path = "unset"
    /\ find_raised = "unset"

NoDownload ==
    /\ temp_dir = {}
    /\ requested = "none"
    /\ attempt = 0
    /\ returned = "unset"

NoEditor ==
    /\ bar_editor = FALSE
    /\ view = <<0, 0>>
    /\ saved_bars = <<>>
    /\ bars = <<>>
    /\ current_bar = <<>>
    /\ start_pos = <<>>
    /\ normalized = <<>>

----------------------------------------------------------------------------
(* SpecFilter: _apply_ffmpeg_filters builds the chain for one job *)

BarSet == [x : 0..BarDen, y : 0..BarDen, width : 1..BarDen, height : 1..BarDen]

\* regions along the frame's horizontal edges, for the longer lists
EdgeBars == {b \in BarSet : b.x \in {0, BarDen} /\ b.width \in {1, BarDen}
                            /\ b.y = 0 /\ b.height = BarDen}

BarLists == {<<>>} \cup {<<b>> : b \in BarSet}
            \cup UNION {[1..n -> EdgeBars] : n \in 2..MaxBars}

FilterJobs == [url : {FALSE}, filter_name : {"WARM", "COOL", "NONE"},
               mirror : BOOLEAN, bars : BarLists, trim_seconds : {0}]

FInit ==
    /\ pc = "filter_call"
    /\ job \in FilterJobs
    /\ dims \in (1..MaxWidth) \X (1..MaxHeight)
    /\ filters = <<>>
    /\ preview_path = FALSE
    /\ out_files = [f \in FilterPresets |-> "none"]
    /\ status_label = "Ready"
    /\ runs = 0
    /\ NoRun
    /\ NoGui
    /\ NoNames
    /\ NoFind
    /\ NoDownload
    /\ NoEditor

BuildFilters ==
    /\ pc = "filter_call"
    /\ pc' = "filter_built"
    /\ filters' = FilterExpr(job, dims[1], dims[2])
    /\ UNCHANGED <<preview_path, job, cancelled, disk, video, reported,
                   events, temp_cartoon, out_files, wrote_output, cart, success,
                   dims, child, result, error, emitted, delivered, status_label,
                   runs>>
    /\ UNCHANGED <<guiVars, sideVars>>

FNext == BuildFilters

SpecFilter == FInit /\ [][FNext]_vars

----------------------------------------------------------------------------
(* SpecName: _generate_output_path names the outputs of two runs of one job *)
(* that may differ in the filter name. Strings are sequences of characters; *)
(* the output folder, the same for both runs, is left out of the names.     *)

\* input_name[:50]
StemLimit == 50

\* str.lower on the letters of the filter names
LowerChar(c) ==
    CASE c = "W" -> "w" [] c = "A" -> "a" [] c = "R" -> "r" [] c = "M" -> "m"
      [] c = "C" -> "c" [] c = "O" -> "o" [] c = "L" -> "l" [] c = "N" -> "n"
      [] c = "E" -> "e" [] OTHER -> c

Lower(str) == [i \in DOMAIN str |-> LowerChar(str[i])]

\* the characters [^\w\s-] removes: neither word characters nor space nor hyphen
IsKept(c) == c \in {"a", "b", "_", " ", "-"}

IsSpace(c) == c = " "

\* str.strip()
RECURSIVE Strip(_)
Strip(str) ==
    IF str = <<>> THEN <<>>
    ELSE IF IsSpace(str[1]) THEN Strip(Tail(str))
    ELSE IF IsSpace(str[Len(str)]) THEN Strip(SubSeq(str, 1, Len(str) - 1))
    ELSE str

\* re.sub(r'[^\w\s-]', '', input_name).strip()[:50]
CleanStem(stem) ==
    LET kept == Strip(SelectSeq(stem, IsKept))
    IN  SubSeq(kept, 1, Min(Len(kept), StemLimit))

GenerateOutputPath_NoTag(stem, filter_name) ==
    CleanStem(stem) \o <<"_", "e", "y", "e", "t", "e", "s", "t">>
        \o <<".", "m", "p", "4">>

\* f"{input_name}_eyetest{filter_suffix}.mp4", the suffix being
\* f"_{self.filter_name.lower()}" if self.filter_name else ""
GenerateOutputPath(stem, filter_name) ==
    CleanStem(stem) \o <<"_", "e", "y", "e", "t", "e", "s", "t">>
        \o (IF filter_name # <<>> THEN <<"_">> \o Lower(filter_name) ELSE <<>>)
        \o <<".", "m", "p", "4">>

\* NONE, WARM, COOL, and no filter name at all
FilterNames == {<<"N", "O", "N", "E">>, <<"W", "A", "R", "M">>,
                <<"C", "O", "O", "L">>, <<>>}

\* stems of input files: plain, with characters to remove and to strip, and
\* at and over the length limit
Stems == {<<"a">>, <<"a", "!">>, <<" ", "a", " ">>, <<"a", "-", "b">>,
          <<"!", "?">>, <<"a", "?", "_", "b">>,
          [i \in 1..StemLimit |-> "a"], [i \in 1..(StemLimit + 1) |-> "a"]}

NameJobs == [stem : Stems, filter_a : FilterNames, filter_b : FilterNames]

NInit ==
    /\ pc = "idle"
    /\ preview_path = FALSE
    /\ job = NoJob
    /\ dims = <<0, 0>>
    /\ filters = <<>>
    /\ out_files = [f \in FilterPresets |-> "none"]
    /\ status_label = "Ready"
    /\ runs = 0
    /\ NoRun
    /\ NoGui
    /\ name_job \in NameJobs
    /\ names = <<>>
    /\ NoFind
    /\ NoDownload
    /\ NoEditor

\* output_path = self._generate_output_path() in each of the two runs
GenerateNames ==
    /\ names = <<>>
    /\ names' = <<GenerateOutputPath(name_job.stem, name_job.filter_a),
                  GenerateOutputPath(name_job.stem, name_job.filter_b)>>
    /\ UNCHANGED <<runVars, guiVars, name_job, findVars, dlVars, edVars>>

NNext == GenerateNames

SpecName == NInit /\ [][NNext]_vars

\* largest frame count of an input video
MaxFrames == 61
\* processing runs the window starts
MaxRuns == 2
\* stderr lines the ffmpeg child writes
MaxLines == 2
\* free space is counted in 1/Granule GB, up to FreeAbove units over the need
Granule == 2
FreeAbove == 1

\* check_disk_space(str(self.output_folder), 2.0)
RequiredGB == 2
\* progress is reported every 30 frames
ProgressEvery == 30

\* the query fails, or answers with the free space
DiskStates == {[query_ok |-> FALSE, free |-> 0]}
              \cup [query_ok : {TRUE}, free : 0..(RequiredGB * Granule + FreeAbove)]

\* a region drawn in the editor, as get_bars returns it
SampleBar == [x |-> 1, y |-> 0, width |-> 2, height |-> 1]

\* mirror = True  # Always mirror output
GuiJobs == [url : BOOLEAN, filter_name : FilterPresets, mirror : {TRUE},
            bars : {<<SampleBar>>}, trim_seconds : {0, 1}]

\* fps2 is twice the frame rate; frames is how many frames cap.read() yields
\* from the start of the file, which the container's frame count
\* (CAP_PROP_FRAME_COUNT) may overstate or understate; a file whose header
\* carries no geometry opens with height 0
Videos ==
    {NoVideo} \cup
    {v \in [openable : {TRUE}, width : {4}, height : {0, 2}, fps2 : {3},
            total_frames : {0, 2, MaxFrames}, frames : 0..MaxFrames] :
        /\ v.frames \in {v.total_frames, Max(0, v.total_frames - 1),
                         Min(MaxFrames, v.total_frames + 2)}
        /\ v.height = 0 => (v.total_frames = 2 /\ v.frames = 2)}

Init ==
    /\ pc = "idle"
    /\ preview_path = FALSE
    /\ job = NoJob
    /\ dims = <<0, 0>>
    /\ filters = <<>>
    /\ out_files = [f \in FilterPresets |-> "none"]
    /\ status_label = "Ready"
    /\ runs = 0
    /\ NoRun
    /\ NoGui
    /\ NoNames
    /\ NoFind
    /\ NoDownload
    /\ NoEditor

\* the output path of the run: one input, so the filter tag decides the name
OutputPath == job.filter_name

Report(seq) == reported' = reported \o seq

\* run's `except Exception as e: raise Exception(f"Processing error: ...")`
Raise(msg) ==
    /\ result' = "raised"
    /\ error' = msg
    /\ pc' = "emit"

Return(value) ==
    /\ result' = value
    /\ error' = error
    /\ pc' = "emit"

\* the download thread has delivered a preview file
LoadPreview ==
    /\ preview_path = FALSE
    /\ pc = "idle"
    /\ preview_path' = TRUE
    /\ status_label' = "Draw black bars"
    /\ process_btn' = TRUE
    /\ load_btn' = TRUE
    /\ UNCHANGED <<downloads, threads>>
    /\ UNCHANGED <<pc, job, cancelled, disk, video, reported, events,
                   temp_cartoon, out_files, wrote_output, cart, success, dims,
                   filters, child, result, error, emitted, delivered, runs>>
    /\ UNCHANGED sideVars

\* the process button is enabled: process_btn.setEnabled(preview_loaded and
\* not processing) was last called with preview_loaded and not processing
ProcessEnabled == process_btn

\* MainWindow._on_process: build the VideoProcessor, start the ProcessThread
OnProcess ==
    /\ ProcessEnabled
    /\ runs < MaxRuns
    /\ child.state # "terminating"
    /\ runs' = runs + 1
    /\ job' \in GuiJobs
    /\ cancelled' = FALSE
    /\ disk' = NoDisk
    /\ video' = NoVideo
    /\ reported' = <<>>
    /\ events' = <<>>
    /\ wrote_output' = FALSE
    /\ cart' = NoCart
    /\ success' = FALSE
    /\ dims' = <<0, 0>>
    /\ filters' = <<>>
    /\ child' = NoChild
    /\ result' = "pending"
    /\ error' = ""
    /\ emitted' = <<>>
    /\ delivered' = 0
    /\ status_label' = "Processing video..."
    /\ process_btn' = FALSE
    /\ load_btn' = FALSE
    /\ threads' = threads + 1
    /\ UNCHANGED downloads
    /\ pc' = "disk"
    /\ UNCHANGED <<preview_path, temp_cartoon, out_files>>
    /\ UNCHANGED sideVars

\* VideoProcessor.cancel, called from outside the worker while run is in progress
Cancel ==
    /\ pc \notin {"idle", "emit", "done"}
    /\ ~cancelled
    /\ cancelled' = TRUE
    /\ UNCHANGED <<pc, preview_path, job, disk, video, reported, events,
                   temp_cartoon, out_files, wrote_output, cart, success, dims,
                   filters, child, result, error, emitted, delivered,
                   status_label, runs>>
    /\ UNCHANGED <<guiVars, sideVars>>

HasSpace_AlwaysOk(d) == TRUE

HasSpace_FailClosed(d) == d.query_ok /\ d.free >= RequiredGB * Granule

\* check_disk_space: (available_gb >= required_gb), or True when the query fails
HasSpace(d) == IF d.query_ok THEN d.free >= RequiredGB * Granule ELSE TRUE

\* run, step 1: progress 5, disk space check
DiskCheck ==
    /\ pc = "disk"
    /\ \E d \in DiskStates :
          /\ disk' = d
          /\ Report(<<5>>)
          /\ events' = Append(events, "disk_check")
          /\ IF ~HasSpace(d)
             THEN Raise("Insufficient disk space")
             ELSE /\ pc' = "download"
                  /\ UNCHANGED <<result, error>>
    /\ UNCHANGED <<preview_path, job, cancelled, video, temp_cartoon,
                   out_files, wrote_output, cart, success, dims, filters, child,
                   emitted, delivered, status_label, runs>>
    /\ UNCHANGED <<guiVars, sideVars>>

\* run, step 2: download the 1080p file when a YouTube URL was given
Download ==
    /\ pc = "download"
    /\ IF job.url
       THEN /\ events' = Append(events, "download")
            /\ \E ok \in BOOLEAN :
                  IF ok
                  THEN /\ Report(<<10, 35>>)
                       /\ pc' = "check_cancel"
                       /\ UNCHANGED <<result, error>>
                  ELSE /\ Report(<<10>>)
                       /\ Raise("Failed to download 1080p version")
       ELSE /\ Report(<<25>>)
            /\ pc' = "check_cancel"
            /\ UNCHANGED <<events, result, error>>
    /\ UNCHANGED <<preview_path, job, cancelled, disk, video,
                   temp_cartoon, out_files, wrote_output, cart, success, dims,
                   filters, child, emitted, delivered, status_label, runs>>
    /\ UNCHANGED <<guiVars, sideVars>>

\* run: `if self._cancelled: return None`, then the dimension probe, the
\* output path and progress 40
Probe ==
    /\ pc = "check_cancel"
    /\ IF cancelled
       THEN /\ Return("none")
            /\ UNCHANGED <<video, dims, events, reported>>
       ELSE /\ \E v \in Videos :
                  /\ video' = v
                  /\ dims' = <<v.width, v.height>>
            /\ events' = Append(events, "probe")
            /\ Report(<<40>>)
            /\ pc' = "cartoon_open"
            /\ UNCHANGED <<result, error>>
    /\ UNCHANGED <<preview_path, job, cancelled, disk, temp_cartoon,
                   out_files, wrote_output, cart, success, filters, child,
                   emitted, delivered, status_label, runs>>
    /\ UNCHANGED <<guiVars, sideVars>>

\* skip_frames = int(fps * self.trim_seconds)
SkipFrames(v, self) == IntOf(v.fps2 * self.trim_seconds, 2)

\* frames_to_process
FramesToProcess(v, self) ==
    IF SkipFrames(v, self) > 0
    THEN v.total_frames - SkipFrames(v, self)
    ELSE v.total_frames

\* _apply_cartoon_opencv up to the loop: open the capture, seek, open the writer
CartoonOpen ==
    /\ pc = "cartoon_open"
    /\ events' = Append(events, "cartoon")
    /\ IF ~video.openable
       THEN /\ success' = FALSE
            /\ pc' = "after_cartoon"
            /\ UNCHANGED <<cart, temp_cartoon, result, error>>
       ELSE IF video.height = 0
       THEN \* process_width = int(width * (process_height / height))
            /\ Raise("float division by zero")
            /\ cart' = [NoCart EXCEPT !.cap = "open"]
            /\ UNCHANGED <<temp_cartoon, success>>
       ELSE \E writer_ok \in BOOLEAN :
              IF writer_ok
              THEN /\ cart' = [frame_count |-> 0,
                               frames_to_process |-> FramesToProcess(video, job),
                               left |-> Max(0, video.frames - SkipFrames(video, job)),
                               cap |-> "open", out |-> "open", written |-> 0,
                               in_frame |-> FALSE]
                   /\ temp_cartoon' = TRUE
                   /\ pc' = "cartoon_loop"
                   /\ UNCHANGED <<success, result, error>>
              ELSE /\ cart' = [NoCart EXCEPT !.cap = "released", !.out = "failed"]
                   /\ success' = FALSE
                   /\ pc' = "after_cartoon"
                   /\ UNCHANGED <<temp_cartoon, result, error>>
    /\ UNCHANGED <<preview_path, job, cancelled, disk, video, reported,
                   out_files, wrote_output, dims, filters, child,
                   emitted, delivered, status_label, runs>>
    /\ UNCHANGED <<guiVars, sideVars>>

\* int(pct * 0.3) for pct = frame_count / frames_to_process * 100: the floor of
\* 30 * frame_count / frames_to_process, or one less where that quotient is a
\* whole number and the floating-point product falls just below it
ScaledPct(frame_count, frames_to_process) ==
    LET q == (ProgressEvery * frame_count) \div frames_to_process
    IN  IF (ProgressEvery * frame_count) % frames_to_process = 0 /\ q >= 1
        THEN {q, q - 1}
        ELSE {q}

CartoonProgress_Late(v) == 75 + v

\* lambda pct: progress_callback(40 + int(pct * 0.3)), v being int(pct * 0.3)
CartoonProgress(v) == 40 + v

LoopCancelled_Unchecked(flag) == FALSE

\* `if self._cancelled:` as the first statement of the loop body
LoopCancelled(flag) == flag

\* the top of one pass of `while frame_count < frames_to_process`: the loop
\* condition, the cancellation check, cap.read()
CartoonRead ==
    /\ pc = "cartoon_loop"
    /\ ~cart.in_frame
    /\ IF cart.frame_count >= cart.frames_to_process
          \/ (~LoopCancelled(cancelled) /\ cart.left = 0)
       THEN \* the loop ends: cap.release(); out.release(); return True
            /\ cart' = [cart EXCEPT !.cap = "released", !.out = "released"]
            /\ success' = TRUE
            /\ pc' = "after_cartoon"
       ELSE IF LoopCancelled(cancelled)
       THEN /\ cart' = [cart EXCEPT !.cap = "released", !.out = "released"]
            /\ success' = FALSE
            /\ pc' = "after_cartoon"
       ELSE /\ cart' = [cart EXCEPT !.in_frame = TRUE, !.left = cart.left - 1]
            /\ UNCHANGED <<pc, success>>
    /\ UNCHANGED <<preview_path, job, cancelled, disk, video, reported, events,
                   temp_cartoon, out_files, wrote_output, dims, filters, child,
                   result, error, emitted, delivered, status_label, runs>>
    /\ UNCHANGED <<guiVars, sideVars>>

\* the rest of the pass: the frame is processed and written, frame_count is
\* advanced, progress is reported every 30 frames
CartoonFrame ==
    /\ pc = "cartoon_loop"
    /\ cart.in_frame
    /\ \E fault \in BOOLEAN :
          IF fault
          THEN \* an OpenCV call raises: nothing in the loop catches it
               /\ Raise("frame processing error")
               /\ UNCHANGED <<cart, success, reported>>
          ELSE LET n == cart.frame_count + 1
               IN  /\ cart' = [cart EXCEPT !.frame_count = n,
                                           !.written = cart.written + 1,
                                           !.in_frame = FALSE]
                   /\ IF n % ProgressEvery = 0
                      THEN \E v \in ScaledPct(n, cart.frames_to_process) :
                              Report(<<CartoonProgress(v)>>)
                      ELSE UNCHANGED reported
                   /\ UNCHANGED <<pc, success, result, error>>
    /\ UNCHANGED <<preview_path, job, cancelled, disk, video, events,
                   temp_cartoon, out_files, wrote_output, dims, filters, child,
                   emitted, delivered, status_label, runs>>
    /\ UNCHANGED <<guiVars, sideVars>>

FilterStageProgress_Done == <<100>>

\* "Step 4: FFmpeg filters (70-95%)": progress_callback(70)
FilterStageProgress == <<70>>

StageOk_Ignored(ok, c) == TRUE

\* the negation of `not success or self._cancelled`
StageOk(ok, c) == ok /\ ~c

\* `if os.path.exists(temp_cartoon): os.unlink(temp_cartoon)`: the file is gone
\* afterwards, unless it was there and the operating system refused to delete
\* it, in which case os.unlink raises
UnlinkRaises(exists, os_ok) == exists /\ ~os_ok

\* run: `if not success or self._cancelled:` unlink the temp file, return None;
\* otherwise progress 70
AfterCartoon ==
    /\ pc = "after_cartoon"
    /\ IF ~StageOk(success, cancelled)
       THEN \E os_ok \in BOOLEAN :
              IF UnlinkRaises(temp_cartoon, os_ok)
              THEN /\ Raise("cannot delete temporary file")
                   /\ UNCHANGED <<temp_cartoon, reported>>
              ELSE /\ temp_cartoon' = FALSE
                   /\ Return("none")
                   /\ UNCHANGED reported
       ELSE /\ Report(FilterStageProgress)
            /\ pc' = "ffmpeg_start"
            /\ UNCHANGED <<temp_cartoon, result, error>>
    /\ UNCHANGED <<preview_path, job, cancelled, disk, video, events,
                   out_files, wrote_output, cart, success, dims, filters, child,
                   emitted, delivered, status_label, runs>>
    /\ UNCHANGED <<guiVars, sideVars>>

\* _apply_ffmpeg_filters up to Popen: find ffmpeg, build the chain, probe the
\* codec, start the child
FfmpegStart ==
    /\ pc = "ffmpeg_start"
    /\ \E found \in BOOLEAN :
          IF ~found
          THEN /\ Raise("ffmpeg not found")
               /\ UNCHANGED <<filters, events, child>>
          ELSE /\ filters' = FilterExpr(job, dims[1], dims[2])
               /\ events' = events \o <<"codec_probe", "ffmpeg">>
               /\ child' = [state |-> "running", lines |-> 0, codec_probes |-> 1]
               /\ pc' = "ffmpeg_read"
               /\ UNCHANGED <<result, error>>
    /\ UNCHANGED <<preview_path, job, cancelled, disk, video, reported,
                   temp_cartoon, out_files, wrote_output, cart, success, dims,
                   emitted, delivered, status_label, runs>>
    /\ UNCHANGED <<guiVars, sideVars>>

\* the ffmpeg child opens (and truncates, -y) the output path
ChildOpenOutput ==
    /\ child.state \in {"running", "terminating"}
    /\ ~wrote_output
    /\ wrote_output' = TRUE
    /\ out_files' = [out_files EXCEPT ![OutputPath] = "partial"]
    /\ UNCHANGED <<pc, preview_path, job, cancelled, disk, video,
                   reported, events, temp_cartoon, cart, success, dims, filters,
                   child, result, error, emitted, delivered, status_label, runs>>
    /\ UNCHANGED <<guiVars, sideVars>>

\* the ffmpeg child writes a line to stderr
ChildWriteLine ==
    /\ child.state = "running"
    /\ child.lines < MaxLines
    /\ child' = [child EXCEPT !.lines = child.lines + 1]
    /\ UNCHANGED <<pc, preview_path, job, cancelled, disk, video,
                   reported, events, temp_cartoon, out_files, wrote_output, cart,
                   success, dims, filters, result, error, emitted, delivered,
                   status_label, runs>>
    /\ UNCHANGED <<guiVars, sideVars>>

\* the ffmpeg child exits: with 0 after completing the output it still holds,
\* or with an error; a terminated child dies
ChildExit ==
    /\ \/ /\ child.state = "running"
          /\ wrote_output /\ out_files[OutputPath] = "partial"
          /\ child' = [child EXCEPT !.state = "exited_ok"]
          /\ out_files' = [out_files EXCEPT ![OutputPath] = "final"]
       \/ /\ child.state = "running"
          /\ child' = [child EXCEPT !.state = "exited_err"]
          /\ UNCHANGED out_files
       \/ /\ child.state = "terminating"
          /\ child' = [child EXCEPT !.state = "killed"]
          /\ UNCHANGED out_files
    /\ UNCHANGED <<pc, preview_path, job, cancelled, disk, video,
                   reported, events, temp_cartoon, wrote_output, cart, success,
                   dims, filters, result, error, emitted, delivered, status_label,
                   runs>>
    /\ UNCHANGED <<guiVars, sideVars>>

\* `for line in process.stderr:` one line read; on cancellation
\* process.terminate() and return False, without waiting for the child
FfmpegReadLine ==
    /\ pc = "ffmpeg_read"
    /\ child.lines > 0
    /\ IF cancelled
       THEN /\ child' = [child EXCEPT
                           !.state = IF @ = "running" THEN "terminating" ELSE @]
            /\ success' = FALSE
            /\ pc' = "cleanup"
       ELSE /\ child' = [child EXCEPT !.lines = child.lines - 1]
            /\ UNCHANGED <<pc, success>>
    /\ UNCHANGED <<preview_path, job, cancelled, disk, video, reported,
                   events, temp_cartoon, out_files, wrote_output, cart, dims,
                   filters, result, error, emitted, delivered, status_label, runs>>
    /\ UNCHANGED <<guiVars, sideVars>>

FilterSuccess_AnyExit(state, exists) == exists

\* process.returncode == 0 and os.path.exists(output_path)
FilterSuccess(state, exists) == state = "exited_ok" /\ exists

\* end of stderr, process.wait(), returncode == 0 and os.path.exists(output_path)
FfmpegWait ==
    /\ pc = "ffmpeg_read"
    /\ child.lines = 0
    /\ child.state \in {"exited_ok", "exited_err"}
    /\ success' = FilterSuccess(child.state, out_files[OutputPath] # "none")
    /\ pc' = "cleanup"
    /\ UNCHANGED <<preview_path, job, cancelled, disk, video, reported,
                   events, temp_cartoon, out_files, wrote_output, cart, dims,
                   filters, child, result, error, emitted, delivered,
                   status_label, runs>>
    /\ UNCHANGED <<guiVars, sideVars>>

\* run after the filter stage: unlink the temp file; on cancellation unlink the
\* output and return None; on failure raise
Cleanup ==
    /\ pc = "cleanup"
    /\ \E os_ok \in BOOLEAN :
          IF UnlinkRaises(temp_cartoon, os_ok)
          THEN /\ Raise("cannot delete temporary file")
               /\ UNCHANGED <<temp_cartoon, out_files>>
          ELSE /\ temp_cartoon' = FALSE
               /\ IF cancelled
                  THEN /\ out_files' = [out_files EXCEPT ![OutputPath] = "none"]
                       /\ Return("none")
                  ELSE IF ~success
                  THEN /\ Raise("FFmpeg processing failed")
                       /\ UNCHANGED out_files
                  ELSE /\ pc' = "finish"
                       /\ UNCHANGED <<out_files, result, error>>
    /\ UNCHANGED <<preview_path, job, cancelled, disk, video, reported,
                   events, wrote_output, cart, success, dims, filters, child,
                   emitted, delivered, status_label, runs>>
    /\ UNCHANGED <<guiVars, sideVars>>

\* progress 95, cleanup_preview, progress 100
FinalProgress == <<95, 100>>

\* run, step 5: the last two progress reports and `return output_path`
Finish ==
    /\ pc = "finish"
    /\ Report(FinalProgress)
    /\ Return("path")
    /\ UNCHANGED <<preview_path, job, cancelled, disk, video, events,
                   temp_cartoon, out_files, wrote_output, cart, success, dims,
                   filters, child, emitted, delivered, status_label, runs>>
    /\ UNCHANGED <<guiVars, sideVars>>

Signal_SilentNone(r) == IF r = "path" THEN <<"finished">>
                        ELSE IF r = "none" THEN <<>> ELSE <<"error">>

\* ProcessThread.run: finished for a path, error for None and for an exception
Signal(r) == IF r = "path" THEN <<"finished">> ELSE <<"error">>

ThreadEmit ==
    /\ pc = "emit"
    /\ emitted' = emitted \o Signal(result)
    /\ threads' = threads - 1
    /\ UNCHANGED <<process_btn, load_btn, downloads>>
    /\ pc' = "done"
    /\ UNCHANGED <<preview_path, job, cancelled, disk, video, reported,
                   events, temp_cartoon, out_files, wrote_output, cart, success,
                   dims, filters, child, result, error, delivered, status_label,
                   runs>>
    /\ UNCHANGED sideVars

\* MainWindow._on_process_finished / _on_process_error
OnProcessSignal ==
    /\ delivered < Len(emitted)
    /\ delivered' = delivered + 1
    /\ process_btn' = TRUE
    /\ load_btn' = TRUE
    /\ UNCHANGED <<downloads, threads>>
    /\ status_label' = (IF emitted[delivered + 1] = "finished"
                        THEN "Done" ELSE "Processing failed.")
    /\ UNCHANGED <<pc, preview_path, job, cancelled, disk, video,
                   reported, events, temp_cartoon, out_files, wrote_output, cart,
                   success, dims, filters, child, result, error, emitted, runs>>
    /\ UNCHANGED sideVars

Next ==
    \/ LoadPreview \/ OnProcess \/ Cancel
    \/ DiskCheck \/ Download \/ Probe
    \/ CartoonOpen \/ CartoonRead \/ CartoonFrame \/ AfterCartoon
    \/ FfmpegStart \/ ChildOpenOutput \/ ChildWriteLine \/ ChildExit
    \/ FfmpegReadLine \/ FfmpegWait \/ Cleanup \/ Finish
    \/ ThreadEmit \/ OnProcessSignal

Spec == Init /\ [][Next]_vars

\* the worker thread keeps running while it has a step to take, and the
\* window's event loop delivers queued signals; nothing makes the ffmpeg child
\* write or exit, and nobody has to call cancel()
WorkerStep ==
    \/ DiskCheck \/ Download \/ Probe
    \/ CartoonOpen \/ CartoonRead \/ CartoonFrame \/ AfterCartoon
    \/ FfmpegStart \/ FfmpegReadLine \/ FfmpegWait \/ Cleanup \/ Finish
    \/ ThreadEmit

SpecFair == Spec /\ WF_vars(WorkerStep) /\ WF_vars(OnProcessSignal)

----------------------------------------------------------------------------
(* SpecGui: the window's slots and the enabling of its buttons. A thread,  *)
(* once started, is in flight until its terminal signal has been handled.  *)

\* DownloadThreads in flight at once
MaxDownloads == 3

\* set_processing_state(processing, preview_loaded): the two buttons
SetProcessingState(processing, preview_loaded) ==
    /\ process_btn' = (preview_loaded /\ ~processing)
    /\ load_btn' = ~processing

\* MainWindow._on_download_requested, on a click of the load-preview button
\* (when enabled) or on Return pressed in the URL field (never disabled)
OnDownloadRequested ==
    /\ downloads < MaxDownloads
    /\ \E via \in {"button", "return"} : via = "button" => load_btn
    /\ SetProcessingState(FALSE, FALSE)
    /\ status_label' = "Downloading preview video..."
    /\ downloads' = downloads + 1
    /\ UNCHANGED <<pc, preview_path, job, cancelled, disk, video, reported,
                   events, temp_cartoon, out_files, wrote_output, cart, success,
                   dims, filters, child, result, error, emitted, delivered, runs,
                   threads, sideVars>>

\* MainWindow._on_download_finished: the file is missing, or the video widget
\* loads it, or fails to
OnDownloadFinished ==
    /\ downloads > 0
    /\ downloads' = downloads - 1
    /\ preview_path' = TRUE
    /\ \E outcome \in {"missing", "loaded", "unloadable"} :
          CASE outcome = "missing" ->
                  /\ status_label' = "Download failed."
                  /\ UNCHANGED <<process_btn, load_btn>>
            [] outcome = "loaded" ->
                  /\ SetProcessingState(FALSE, TRUE)
                  /\ status_label' = "Draw black bars"
            [] outcome = "unloadable" ->
                  /\ status_label' = "Failed to load video."
                  /\ UNCHANGED <<process_btn, load_btn>>
    /\ UNCHANGED <<pc, job, cancelled, disk, video, reported,
                   events, temp_cartoon, out_files, wrote_output, cart, success,
                   dims, filters, child, result, error, emitted, delivered, runs,
                   threads, sideVars>>

\* MainWindow._on_download_error
OnDownloadError ==
    /\ downloads > 0
    /\ downloads' = downloads - 1
    /\ SetProcessingState(FALSE, FALSE)
    /\ status_label' = "Download failed."
    /\ UNCHANGED <<pc, preview_path, job, cancelled, disk, video, reported,
                   events, temp_cartoon, out_files, wrote_output, cart, success,
                   dims, filters, child, result, error, emitted, delivered, runs,
                   threads, sideVars>>

\* MainWindow._on_process on a click of the process button: a new
\* ProcessThread is started
OnProcessClicked ==
    /\ process_btn
    /\ preview_path
    /\ runs < MaxRuns
    /\ runs' = runs + 1
    /\ threads' = threads + 1
    /\ SetProcessingState(TRUE, TRUE)
    /\ status_label' = "Processing video..."
    /\ UNCHANGED <<pc, preview_path, job, cancelled, disk, video, reported,
                   events, temp_cartoon, out_files, wrote_output, cart, success,
                   dims, filters, child, result, error, emitted, delivered,
                   downloads, sideVars>>

\* a ProcessThread ends and MainWindow._on_process_finished or
\* _on_process_error handles its signal
OnThreadDone ==
    /\ threads > 0
    /\ threads' = threads - 1
    /\ SetProcessingState(FALSE, TRUE)
    /\ \E ok \in BOOLEAN :
          status_label' = (IF ok THEN "Done" ELSE "Processing failed.")
    /\ UNCHANGED <<pc, preview_path, job, cancelled, disk, video, reported,
                   events, temp_cartoon, out_files, wrote_output, cart, success,
                   dims, filters, child, result, error, emitted, delivered, runs,
                   downloads, sideVars>>

GNext ==
    \/ OnDownloadRequested \/ OnDownloadFinished \/ OnDownloadError
    \/ OnProcessClicked \/ OnThreadDone

SpecGui == Init /\ [][GNext]_vars

----------------------------------------------------------------------------
(* SpecFind: the search for the ffmpeg executable *)

\* the pipeline and the window at rest
Idle ==
    /\ pc = "idle"
    /\ preview_path = FALSE
    /\ job = NoJob
    /\ dims = <<0, 0>>
    /\ filters = <<>>
    /\ out_files = [f \in FilterPresets |-> "none"]
    /\ status_label = "Ready"
    /\ runs = 0
    /\ NoRun
    /\ NoGui

\* common_paths of _find_ffmpeg, in the order they are tried
CommonPaths == <<"miniconda3", "anaconda3", "c_ffmpeg", "program_files">>

\* the places _find_ffmpeg looks at: the system PATH (shutil.which), the
\* application's own directory, the common paths
Places == {"system_path", "app_dir"} \cup {CommonPaths[i] : i \in 1..Len(CommonPaths)}

\* `for p in common_paths: if os.path.exists(p): return p`
FirstCommon(env) ==
    IF \E i \in 1..Len(CommonPaths) : CommonPaths[i] \in env
    THEN CommonPaths[CHOOSE i \in 1..Len(CommonPaths) :
                        /\ CommonPaths[i] \in env
                        /\ \A j \in 1..(i - 1) : CommonPaths[j] \notin env]
    ELSE "none"

\* _find_ffmpeg: shutil.which first, then the application's directory, then
\* the common paths, then None
FindFfmpeg(env) ==
    IF "system_path" \in env THEN "system_path"
    ELSE IF "app_dir" \in env THEN "app_dir"
    ELSE FirstCommon(env)

FindInit ==
    /\ Idle
    /\ NoNames
    /\ NoDownload
    /\ NoEditor
    /\ find_env \in SUBSET Places
    /\ ffmpeg_path = "unset"
    /\ find_raised = "unset"

\* ffmpeg_path = self._find_ffmpeg()
FindCall ==
    /\ ffmpeg_path = "unset"
    /\ ffmpeg_path' = FindFfmpeg(find_env)
    /\ UNCHANGED <<runVars, guiVars, nameVars, dlVars, edVars, find_env,
                   find_raised>>

\* `if not ffmpeg_path: raise Exception("ffmpeg not found")`
FindCheck ==
    /\ ffmpeg_path # "unset"
    /\ find_raised = "unset"
    /\ find_raised' = IF ffmpeg_path = "none" THEN "raised" ELSE "passed"
    /\ UNCHANGED <<runVars, guiVars, nameVars, dlVars, edVars, find_env,
                   ffmpeg_path>>

FindNext == FindCall \/ FindCheck

SpecFind == FindInit /\ [][FindNext]_vars

----------------------------------------------------------------------------
(* SpecDownload: the temp directory over several runs on URLs *)

\* the videos behind the URLs the user enters
VideoIds == {"a", "b", "c"}

\* `for attempt in range(3)`
MaxAttempts == 3

\* self.output_dir.glob("*_1080p.mp4")
Glob1080p(dir) == {f \in dir : f[2] = "1080p"}

\* self.output_dir.glob("*_480p*.mp4")
Glob480p(dir) == {f \in dir : f[2] = "480p"}

DlInit ==
    /\ Idle
    /\ NoNames
    /\ NoFind
    /\ NoEditor
    /\ NoDownload

\* the user loads the preview of a URL (VideoDownloader.download writes the
\* 480p file) and starts a run on it
DlRequest ==
    /\ requested = "none"
    /\ \E v \in VideoIds :
          /\ requested' = v
          /\ temp_dir' = temp_dir \cup {<<v, "480p">>}
    /\ attempt' = 0
    /\ returned' = "unset"
    /\ UNCHANGED <<runVars, guiVars, nameVars, findVars, edVars>>

\* one pass of the retry loop of download_1080p: ydl.download either raises
\* (continue; None after the last attempt) or writes the file of the URL,
\* after which the first file the glob yields is returned; the order of a
\* glob is the directory's, not the order of creation
DlAttempt ==
    /\ requested # "none"
    /\ returned = "unset"
    /\ attempt < MaxAttempts
    /\ \E ok \in BOOLEAN :
          IF ok
          THEN /\ temp_dir' = temp_dir \cup {<<requested, "1080p">>}
               /\ \E f \in Glob1080p(temp_dir') : returned' = f[1]
               /\ UNCHANGED attempt
          ELSE /\ attempt' = attempt + 1
               /\ returned' = IF attempt' = MaxAttempts THEN "none" ELSE "unset"
               /\ UNCHANGED temp_dir
    /\ UNCHANGED <<runVars, guiVars, nameVars, findVars, edVars, requested>>

\* the run goes on with the returned file and ends; cleanup_preview removes
\* the 480p files and nothing else
DlRunEnd ==
    /\ returned # "unset"
    /\ temp_dir' = temp_dir \ Glob480p(temp_dir)
    /\ requested' = "none"
    /\ attempt' = 0
    /\ returned' = "unset"
    /\ UNCHANGED <<runVars, guiVars, nameVars, findVars, edVars>>

DlNext == DlRequest \/ DlAttempt \/ DlRunEnd

SpecDownload == DlInit /\ [][DlNext]_vars

----------------------------------------------------------------------------
(* SpecEditor: the occlusion-bar editor over the video view *)

\* `len(self.bars) < 5  # Max 5 bars`
BarLimit == 5

\* `self.current_bar.width() > 5 and self.current_bar.height() > 5`
MinBarPixels == 5

\* longest black_bars list of config/settings.json
MaxSaved == 6

\* sizes of the video view, in pixels: square, 16:9, wider, taller
Views == {<<4, 4>>, <<16, 9>>, <<32, 9>>, <<16, 18>>}

\* where the pointer is pressed, and where it is while dragged (the pointer
\* may leave the view with the button held)
PressPoints == {<<0, 0>>, <<1, 0>>, <<9, 3>>}
MovePoints == {<<-2, -2>>, <<7, 7>>, <<40, 20>>}

\* entries of black_bars, as fractions n / BarDen: one written by get_bars,
\* one written by hand
SavedBar == [x |-> 1, y |-> 1, width |-> 1, height |-> 1]
EditedBar == [x |-> BarDen + 1, y |-> 0, width |-> -1, height |-> 2 * BarDen]

\* self._saved_bars = settings.get("black_bars", [])
SavedLists == {<<>>, <<SavedBar>>, <<SavedBar, EditedBar>>,
               [i \in 1..MaxSaved |-> SavedBar]}

\* PyQt's truth value of a QPoint (not isNull) and of a QRect (isValid); None,
\* written <<>>, is false
PointTruthy(p) == p # <<>> /\ p[1] # <<0, 0>>
RectTruthy(r) == r # <<>> /\ r[1].width > 0 /\ r[1].height > 0

\* one axis of QRect(p, q).normalized(): the ends are swapped when the far
\* end lies more than one below the near end
NormSpan(a, b) == IF b < a - 1 THEN <<b, a>> ELSE <<a, b>>

\* QRect(self.start_pos, event.pos()).normalized()
NormalizedRect(p, q) ==
    LET sx == NormSpan(p[1], q[1])
        sy == NormSpan(p[2], q[2])
    IN  [x |-> sx[1], y |-> sy[1],
         width |-> sx[2] - sx[1] + 1, height |-> sy[2] - sy[1] + 1]

\* _get_video_rect for a view of w by h pixels: the 16:9 rectangle the video
\* is rendered in, its four values cut by int()
VideoRect(v) ==
    LET w == v[1]
        h == v[2]
    IN  IF h > 0 /\ 9 * w > 16 * h
        THEN [x |-> IntOf(9 * w - 16 * h, 18), y |-> 0,
              width |-> IntOf(16 * h, 9), height |-> h]
        ELSE [x |-> 0, y |-> IntOf(16 * h - 9 * w, 32),
              width |-> w, height |-> IntOf(9 * w, 16)]

\* max(0.0, min(1.0, q)) for the fraction q = <<n, d>>, d > 0
ClampUnit(q) ==
    IF q[1] > q[2] THEN <<1, 1>> ELSE IF q[1] < 0 THEN <<0, 1>> ELSE q

ClampSize_None(q) == q

\* max(0.01, min(1.0, q)) for the fraction q = <<n, d>>, d > 0
ClampSize(q) ==
    IF q[1] > q[2] THEN <<1, 1>> ELSE IF 100 * q[1] < q[2] THEN <<1, 100>> ELSE q

\* get_bars: the bars relative to the video rectangle, as fractions <<n, d>>
NormalizedBars(bs, rect) ==
    [i \in 1..Len(bs) |->
        LET x_rel == Max(0, bs[i].x - rect.x)
            y_rel == Max(0, bs[i].y - rect.y)
        IN  [x |-> ClampUnit(<<x_rel, rect.width>>),
             y |-> ClampUnit(<<y_rel, rect.height>>),
             width |-> ClampSize(<<bs[i].width, rect.width>>),
             height |-> ClampSize(<<bs[i].height, rect.height>>)]]

\* set_bars: every saved entry becomes a rectangle of the view, in pixels
SetBars(saved, rect) ==
    [i \in 1..Len(saved) |->
        [x |-> IntOf(saved[i].x * rect.width + BarDen * rect.x, BarDen),
         y |-> IntOf(saved[i].y * rect.height + BarDen * rect.y, BarDen),
         width |-> IntOf(saved[i].width * rect.width, BarDen),
         height |-> IntOf(saved[i].height * rect.height, BarDen)]]

\* the window before a preview is loaded: self.bar_editor = None, the saved
\* bars read by _load_settings
EdInit ==
    /\ Idle
    /\ NoNames
    /\ NoFind
    /\ NoDownload
    /\ bar_editor = FALSE
    /\ view \in Views
    /\ saved_bars \in SavedLists
    /\ bars = <<>>
    /\ current_bar = <<>>
    /\ start_pos = <<>>
    /\ normalized = <<>>

\* _on_download_finished: a new BlackBarEditor over the view, the saved bars
\* restored by set_bars
RestoreBars ==
    /\ bar_editor' = TRUE
    /\ bars' = IF saved_bars # <<>> THEN SetBars(saved_bars, VideoRect(view))
               ELSE <<>>
    /\ current_bar' = <<>>
    /\ start_pos' = <<>>
    /\ normalized' = <<>>
    /\ UNCHANGED <<runVars, guiVars, nameVars, findVars, dlVars, view,
                   saved_bars>>

\* mousePressEvent: the left button starts a bar while fewer than 5 exist,
\* the right button deletes the last bar
MousePress ==
    /\ bar_editor
    /\ \E p \in PressPoints, button \in {"left", "right"} :
          /\ p[1] < view[1] /\ p[2] < view[2]
          /\ IF button = "left" /\ Len(bars) < BarLimit
             THEN /\ start_pos' = <<p>>
                  /\ current_bar' = <<[x |-> p[1], y |-> p[2],
                                       width |-> 1, height |-> 1]>>
                  /\ UNCHANGED <<bars, normalized>>
             ELSE /\ button = "right" /\ bars # <<>>
                  /\ bars' = SubSeq(bars, 1, Len(bars) - 1)
                  /\ normalized' = <<>>
                  /\ UNCHANGED <<start_pos, current_bar>>
    /\ UNCHANGED <<runVars, guiVars, nameVars, findVars, dlVars, bar_editor,
                   view, saved_bars>>

\* mouseMoveEvent
MouseMove ==
    /\ bar_editor
    /\ PointTruthy(start_pos)
    /\ \E q \in MovePoints :
          current_bar' = <<NormalizedRect(start_pos[1], q)>>
    /\ UNCHANGED <<runVars, guiVars, nameVars, findVars, dlVars, bar_editor,
                   view, saved_bars, bars, start_pos, normalized>>

\* mouseReleaseEvent of the left button
MouseRelease ==
    /\ bar_editor
    /\ RectTruthy(current_bar)
    /\ IF current_bar[1].width > MinBarPixels
          /\ current_bar[1].height > MinBarPixels
       THEN /\ bars' = Append(bars, current_bar[1])
            /\ normalized' = <<>>
       ELSE UNCHANGED <<bars, normalized>>
    /\ current_bar' = <<>>
    /\ start_pos' = <<>>
    /\ UNCHANGED <<runVars, guiVars, nameVars, findVars, dlVars, bar_editor,
                   view, saved_bars>>

\* clear_bars
ClearBars ==
    /\ bar_editor
    /\ bars # <<>>
    /\ bars' = <<>>
    /\ normalized' = <<>>
    /\ UNCHANGED <<runVars, guiVars, nameVars, findVars, dlVars, bar_editor,
                   view, saved_bars, current_bar, start_pos>>

\* undo_last
UndoLast ==
    /\ bar_editor
    /\ bars # <<>>
    /\ bars' = SubSeq(bars, 1, Len(bars) - 1)
    /\ normalized' = <<>>
    /\ UNCHANGED <<runVars, guiVars, nameVars, findVars, dlVars, bar_editor,
                   view, saved_bars, current_bar, start_pos>>

\* resizeEvent: the view takes another size, the bars keep their pixels
ResizeEvent ==
    /\ bar_editor
    /\ \E v \in Views \ {view} : view' = v
    /\ normalized' = <<>>
    /\ UNCHANGED <<runVars, guiVars, nameVars, findVars, dlVars, bar_editor,
                   saved_bars, bars, current_bar, start_pos>>

\* bars = self.bar_editor.get_bars() in _on_process and closeEvent
GetBars ==
    /\ bar_editor
    /\ normalized' = NormalizedBars(bars, VideoRect(view))
    /\ UNCHANGED <<runVars, guiVars, nameVars, findVars, dlVars, bar_editor,
                   view, saved_bars, bars, current_bar, start_pos>>

EdNext ==
    \/ RestoreBars \/ MousePress \/ MouseMove \/ MouseRelease
    \/ ClearBars \/ UndoLast \/ ResizeEvent \/ GetBars

SpecEditor == EdInit /\ [][EdNext]_vars

----------------------------------------------------------------------------
(* Properties of the pipeline (Spec) *)

\* VideoProcessor.run has returned or raised
RunOver == pc \in {"emit", "done"}

OutputExists == out_files[OutputPath] # "none"

\* C1: whenever the cancellation flag is set during run, run ends with None
\* rather than raising, and no final output file exists at the generated
\* output path.
C1_CancelYieldsNoResult ==
    (RunOver /\ cancelled) => (result = "none" /\ ~OutputExists)

\* C2: a run that returns None after cancel() is not reported as a failure:
\* ProcessThread emits no error signal and the window does not show
\* "Processing failed".
C2_CancelNotReportedAsFailure ==
    (RunOver /\ cancelled /\ result = "none") =>
        /\ \A i \in DOMAIN emitted : emitted[i] # "error"
        /\ status_label # "Processing failed."

\* C3: every run delivers exactly one terminal signal, finished or error:
\* none while the run is in progress, one once the thread is done, and
\* finished exactly when run returned a path.
C3_ExactlyOneOutcome ==
    /\ Len(emitted) = (IF pc = "done" THEN 1 ELSE 0)
    /\ pc = "done" => (emitted[1] = "finished" <=> result = "path")
    /\ pc = "done" => (emitted[1] = "error" <=> result \in {"none", "raised"})

\* C3 witness: a cancelled run and its single signal
C3_Witness == pc = "done" /\ cancelled /\ result = "none" /\ Len(emitted) = 1

DiskLow == disk.query_ok /\ disk.free < RequiredGB * Granule

\* C4: when the disk check reports less than 2 GB, run fails with the
\* insufficient-disk-space error before the download, the probe, the cartoon
\* stage or any child process is started.
C4_DiskCheckFirst ==
    (DiskLow /\ events # <<>>) =>
        /\ events = <<"disk_check">>
        /\ result = "raised" /\ error = "Insufficient disk space"
        /\ child.state = "none" /\ child.codec_probes = 0
        /\ ~wrote_output
        /\ cart = NoCart

\* C4 witness: a run of a job with a URL has ended on the disk check, 0.5 GB free
C4_Witness ==
    /\ pc = "done" /\ job.url
    /\ disk.query_ok /\ disk.free * 2 = Granule
    /\ result = "raised"

\* C5: the values passed to the progress callback within one run are integers
\* in 0..100 and never decrease.
C5_ProgressMonotone ==
    \A i \in DOMAIN reported :
        /\ reported[i] \in 0..100
        /\ i > 1 => reported[i - 1] <= reported[i]

\* C5 witness: a complete run on the download path with two reports from the
\* cartoon loop: 5, 10, 35, 40, two loop values, 70, 95, 100
C5_Witness ==
    /\ result = "path" /\ job.url
    /\ Len(reported) = 9

\* C6: 100 is reported only in runs that end in full success: once 100 has
\* been reported, run has returned the output path.
C6_HundredOnlyOnSuccess ==
    (\E i \in DOMAIN reported : reported[i] = 100) =>
        (RunOver /\ result = "path" /\ out_files[OutputPath] = "final")

\* C6 witness: a run that reported 100 although cancel() came in after the
\* last check
C6_Witness ==
    /\ pc = "done" /\ cancelled
    /\ reported # <<>> /\ reported[Len(reported)] = 100

\* an OpenCV call on a frame inside the loop has raised
FrameFault == error = "frame processing error"

\* the cartoon stage has returned True
CartoonReturnedTrue == pc = "after_cartoon" /\ success

\* C11: a processing fault on a single frame inside the cartoon loop does not
\* abort the run: the run does not end by raising because of it, and the stage
\* writes as many frames as a fault-free run (one per frame read).
C11_FrameFaultAbsorbed ==
    /\ FrameFault => result # "raised"
    /\ CartoonReturnedTrue =>
          cart.written = Min(Max(0, cart.frames_to_process),
                             Max(0, video.frames - SkipFrames(video, job)))

\* C12: for every total frame count, trim value and decode length, the cartoon
\* stage never writes more than totalFrames - skippedFrames frames (none when
\* the trim reaches past the end), and when it returns having written no frame
\* the decoder had no frame to yield from the trim point.
C12_FrameCountBound ==
    /\ cart.written <= Max(0, video.total_frames - SkipFrames(video, job))
    /\ (CartoonReturnedTrue /\ cart.written = 0) =>
          Max(0, video.frames - SkipFrames(video, job)) = 0

\* run has ended in a fatal error: it raised, or returned None without cancel()
FatalEnd == RunOver /\ (result = "raised" \/ (result = "none" /\ ~cancelled))

\* C13: whenever run ends in a fatal error (cartoon stage failure, ffmpeg not
\* found, non-zero exit of the filter stage, any raised exception), neither the
\* temporary cartoon-stage file nor a partially written output file remains.
C13_NoLeftoversAfterFatalError ==
    FatalEnd => (~temp_cartoon /\ out_files[OutputPath] # "partial")

Started(step) == \E i \in DOMAIN events : events[i] = step

\* C14: if the probed width or height or the frame rate is non-positive, run
\* fails with a dimension-probe error right after the probe, before the
\* cartoon stage or the filter stage is invoked.
C14_BadProbeFailsFast ==
    (Started("probe") /\ (dims[1] <= 0 \/ dims[2] <= 0 \/ video.fps2 <= 0)) =>
        /\ result = "raised" /\ error = "dimension probe error"
        /\ ~Started("cartoon") /\ ~Started("ffmpeg")

\* C15: two runs never overwrite each other's output: a finished output file
\* that is not the file of the run in progress is never replaced or removed by
\* that run, whatever the two runs' settings.
C15_RunsNeverOverwrite ==
    [][\A f \in FilterPresets :
          (out_files[f] = "final" /\ ~(wrote_output /\ f = job.filter_name))
              => out_files'[f] = "final"]_vars

\* the steps of run in the order of the code
StageOrder == <<"disk_check", "download", "probe", "cartoon", "codec_probe", "ffmpeg">>

Pos(step) == CHOOSE i \in DOMAIN StageOrder : StageOrder[i] = step

\* C17: within one run the stages are strictly sequential: steps start in the
\* order disk check, download, probe, cartoon stage, filter stage; the cartoon
\* stage starts only after disk check, download and probe; the filter stage
\* starts only after the cartoon stage has ended its loop and released its
\* capture and writer; the cartoon stage and the ffmpeg child are never active
\* together.
C17_StagesSequential ==
    /\ \A i, j \in DOMAIN events : i < j => Pos(events[i]) < Pos(events[j])
    /\ Started("cartoon") =>
          /\ Started("disk_check") /\ Started("probe")
          /\ job.url => Started("download")
    /\ Started("ffmpeg") =>
          /\ Started("cartoon")
          /\ cart.cap = "released" /\ cart.out = "released"
          /\ cart.frame_count >= cart.frames_to_process \/ cart.left = 0
    /\ (cart.cap = "open" /\ ~RunOver) => (pc = "cartoon_loop" /\ child.state = "none")
    /\ child.state = "running" => pc = "ffmpeg_read"

\* C17 witness: the ffmpeg child of a run with a download is running
C17_Witness ==
    /\ job.url /\ Started("ffmpeg")
    /\ child.state = "running" /\ cart.written > 0

\* C18: if the ffmpeg child never exits, the run still terminates (the wait is
\* bounded by a timeout): a run that has entered the filter stage always ends.
C18_FilterStageTerminates == (pc = "ffmpeg_read") ~> RunOver

\* C19: check_disk_space never raises: when the query succeeds the check passes
\* exactly when available >= required, and when the query fails the check
\* passes (permissive default), so run goes on to its next step.
C19_DiskCheckPermissive ==
    events # <<>> =>
        /\ disk.query_ok =>
              ((result = "raised" /\ error = "Insufficient disk space")
                  <=> disk.free < RequiredGB * Granule)
        /\ ~disk.query_ok => error # "Insufficient disk space"
        /\ (pc = "download" /\ result = "pending") => HasSpace(disk)

\* C19 witness: the query failed and run went on to the probe
C19_Witness == ~disk.query_ok /\ Started("probe") /\ result = "pending"

\* the worker stands at a step boundary of run ahead of the cartoon stage:
\* before the download step, before the probe
AtStepBoundary == pc \in {"download", "check_cancel"}

\* C21: at every step boundary of run the cancellation flag is re-checked: a
\* step taken from a boundary with the flag set starts no further stage and
\* returns no result; and whenever a cancelled run has returned no result,
\* the temporary cartoon-stage file and any partial output are gone.
C21_CancelCheckedAtEveryBoundary ==
    [][/\ (cancelled /\ AtStepBoundary /\ pc' # pc) =>
              (result' = "none" /\ events' = events)
       /\ (pc' = "emit" /\ cancelled' /\ result' = "none") =>
              (~temp_cartoon' /\ out_files'[job'.filter_name] # "partial")]_vars

\* C22: on every exit path of the cartoon stage (end of stream, frame limit,
\* cancellation, writer open failure, an exception while processing a frame)
\* the capture and the writer are released before control is back in run.
C22_CartoonReleasesBoth ==
    pc \notin {"cartoon_open", "cartoon_loop"} =>
        (cart.cap # "open" /\ cart.out # "open")

\* the filter stage has returned True
FilterStageSucceeded == Started("ffmpeg") /\ success

\* C23: deleting the temporary cartoon-stage file after the filter stage is
\* best-effort: when the filter stage succeeded and the run was not cancelled,
\* the run returns the output path whether or not the delete worked.
C23_TempDeleteBestEffort ==
    (RunOver /\ FilterStageSucceeded /\ ~cancelled) => result = "path"

\* C24: once the cancellation flag is set while the cartoon loop is running,
\* the loop observes it at the start of the next pass: only a frame already
\* being processed is still written, and from the top of the loop the stage
\* exits without reading or writing a further frame.
C24_CancelSeenAtNextPass ==
    [][(cancelled /\ pc = "cartoon_loop") =>
          IF cart.in_frame
          THEN cart'.written <= cart.written + 1 /\ cart'.left = cart.left
          ELSE cart'.written = cart.written /\ cart'.left = cart.left
               /\ ~cart'.in_frame
               /\ (cart' # cart => (pc' = "after_cartoon" /\ cart'.cap = "released"
                                     /\ cart'.out = "released"))]_vars

\* C24 witness: a cancelled cartoon stage has exited with frames written and
\* frames of the input still unread
C24_Witness ==
    /\ pc = "after_cartoon" /\ cancelled /\ ~success
    /\ cart.written >= 1 /\ cart.left > 0
    /\ cart.frame_count < cart.frames_to_process

\* Python round() of n / d for n >= 0, d > 0: to the nearest, halves to even
Round(n, d) ==
    LET q == n \div d
        r == n % d
    IN  IF 2 * r < d THEN q
        ELSE IF 2 * r > d THEN q + 1
        ELSE IF q % 2 = 0 THEN q ELSE q + 1

\* C28: when trimSeconds > 0 the cartoon stage seeks the decoder to frame
\* round(trimSeconds * frameRate), and the frame-count denominator of the
\* progress is totalFrames minus that index, for every frame rate.
C28_TrimSeeksRounded ==
    (pc = "cartoon_loop" /\ job.trim_seconds > 0) =>
        LET index == Round(video.fps2 * job.trim_seconds, 2)
        IN  /\ cart.frames_to_process = video.total_frames - index
            /\ cart.left + cart.frame_count + (IF cart.in_frame THEN 1 ELSE 0)
                  = Max(0, video.frames - index)

\* C30: run returns an output path only if the ffmpeg child exited with code
\* 0 and the final output file exists, and when run returns that path the
\* temporary cartoon-stage file no longer exists.
C30_PathOnlyAfterCleanSuccess ==
    (RunOver /\ result = "path") =>
        /\ child.state = "exited_ok"
        /\ out_files[OutputPath] = "final"
        /\ ~temp_cartoon

\* C30 witness: the second run of the window has returned its path
C30_Witness == RunOver /\ result = "path" /\ runs = 2 /\ wrote_output

----------------------------------------------------------------------------
(* Properties of the ffmpeg search (SpecFind) *)

\* the search order of the claim: the bundled copy beside the application,
\* then the system search path, then nothing
BundledFirst(env) ==
    IF "app_dir" \in env THEN "app_dir"
    ELSE IF "system_path" \in env THEN "system_path"
    ELSE "none"

\* C27: the ffmpeg executable is located by the order bundled copy, system
\* search path, hard failure: with both present the bundled one is chosen,
\* and with neither present the filter stage fails.
C27_BundledThenPathThenFail ==
    /\ ffmpeg_path # "unset" => ffmpeg_path = BundledFirst(find_env)
    /\ find_raised # "unset" =>
          (find_raised = "raised" <=> BundledFirst(find_env) = "none")

----------------------------------------------------------------------------
(* Properties of the temp directory (SpecDownload) *)

\* C29: the file download_1080p returns for a requested URL is the file
\* downloaded for that URL, whatever 1080p files earlier runs on other URLs
\* have left in the temp directory.
C29_ReturnsRequestedVideo ==
    returned \notin {"unset", "none"} => returned = requested

----------------------------------------------------------------------------
(* Properties of the bar editor (SpecEditor) *)

\* C25: after any sequence of editor operations (press, move, release,
\* right-click delete, undo, clear, restoring the saved bars) the editor holds
\* at most 5 bars, and the list get_bars hands to a job has at most 5 regions.
C25_AtMostFiveBars ==
    Len(bars) <= BarLimit /\ Len(normalized) <= BarLimit

\* the fraction q = <<n, d>> lies in [0, 1]
InUnit(q) == q[2] > 0 /\ 0 <= q[1] /\ q[1] <= q[2]

\* the fraction q = <<n, d>> lies in (0, 1]
InPositiveUnit(q) == q[2] > 0 /\ 0 < q[1] /\ q[1] <= q[2]

\* C26: every region get_bars returns, for any drawn or restored rectangle
\* and any view size with a positive video rectangle, has x and y in [0, 1]
\* and width and height in (0, 1].
C26_RegionsInRange ==
    \A i \in 1..Len(normalized) :
        /\ InUnit(normalized[i].x) /\ InUnit(normalized[i].y)
        /\ InPositiveUnit(normalized[i].width)
        /\ InPositiveUnit(normalized[i].height)

\* C26 witness: get_bars has returned a region for a bar that starts left of
\* the video rectangle and is wider than it, and one for a bar without height
C26_Witness ==
    /\ Len(normalized) = Len(bars)
    /\ \E i \in 1..Len(bars) :
          /\ bars[i].x < VideoRect(view).x
          /\ bars[i].width > VideoRect(view).width
          /\ normalized[i].width = <<1, 1>>
    /\ \E i \in 1..Len(bars) :
          /\ bars[i].height <= 0
          /\ normalized[i].height = <<1, 100>>

----------------------------------------------------------------------------
(* Properties of the window (SpecGui) *)

\* C20: for any sequence of UI events at most one ProcessThread is running at
\* any time, and the process button is never enabled while a run is in flight.
C20_AtMostOneProcessThread ==
    /\ threads <= 1
    /\ process_btn => threads = 0

----------------------------------------------------------------------------
(* Properties of the output names (SpecName) *)

\* tag occurs in name as a run of consecutive characters
Contains(name, tag) ==
    \E i \in 0..(Len(name) - Len(tag)) :
        \A k \in 1..Len(tag) : name[i + k] = tag[k]

\* the tag _generate_output_path writes for a filter name
FilterTag(filter_name) ==
    CASE filter_name = <<"W", "A", "R", "M">> -> <<"w", "a", "r", "m">>
      [] filter_name = <<"C", "O", "O", "L">> -> <<"c", "o", "o", "l">>
      [] filter_name = <<"N", "O", "N", "E">> -> <<"n", "o", "n", "e">>
      [] OTHER -> <<>>

\* C16: two runs of the same job that differ only in the filter name get
\* output names that each contain their own filter tag and differ.
C16_FilterTagsDistinguish ==
    (names # <<>> /\ name_job.filter_a # name_job.filter_b) =>
        /\ names[1] # names[2]
        /\ Contains(names[1], FilterTag(name_job.filter_a))
        /\ Contains(names[2], FilterTag(name_job.filter_b))

\* C16 witness: the names of a WARM and a COOL run of an input whose stem is
\* over the length limit
C16_Witness ==
    /\ names # <<>>
    /\ name_job.filter_a = <<"W", "A", "R", "M">>
    /\ name_job.filter_b = <<"C", "O", "O", "L">>
    /\ Len(name_job.stem) > StemLimit
    /\ names[1] # names[2]

----------------------------------------------------------------------------
(* Properties of the filter chain (SpecFilter) *)

IsBox(s) == s.op = "drawbox"

\* the drawbox steps of the chain, in order: the i-th is the box of bars[i]
DrawnBoxes == SelectSeq(filters, IsBox)

Built == pc = "filter_built"

HasFlip == \E i \in DOMAIN filters : filters[i].op = "hflip"

\* C7: for every frame size width, height >= 1 and every region with x, y in
\* [0,1] and width, height in (0,1], the drawbox rectangle satisfies 0 <= x,
\* 0 <= y, w >= 1, h >= 1, x + w <= width and y + h <= height.
C7_BoxInsideFrame ==
    Built =>
        /\ Len(DrawnBoxes) = Len(job.bars)
        /\ \A i \in DOMAIN DrawnBoxes :
              LET b == DrawnBoxes[i]
              IN  /\ 0 <= b.x /\ 0 <= b.y
                  /\ b.w >= 1 /\ b.h >= 1
                  /\ b.x + b.w <= dims[1]
                  /\ b.y + b.h <= dims[2]

\* C7 witness: a box has been built for a region that reaches past the right
\* and bottom edges (x + width > 1, y + height > 1), where the clamps act.
C7_Witness ==
    /\ Built
    /\ \E i \in DOMAIN job.bars :
          /\ job.bars[i].x + job.bars[i].width > BarDen
          /\ job.bars[i].y + job.bars[i].height > BarDen
          /\ DrawnBoxes[i].w >= 1

Cols(x, w) == x..(x + w - 1)

\* the columns the region covers when placed on the unflipped frame at
\* x = int(R.x * width), w = int(R.width * width), as far as they are in the frame
UnflippedCols(bar, width) ==
    Cols(IntOf(bar.x * width, BarDen), IntOf(bar.width * width, BarDen))
        \cap (0..(width - 1))

MirrorCols(S, width) == {width - 1 - c : c \in S}

\* C8: the pixel columns covered by the box drawn after the flip are exactly
\* the mirror image (x' = width - x - w) of the columns that placing the region
\* on the unflipped frame would cover.
C8_MirrorEquivalence ==
    (Built /\ HasFlip) =>
        \A i \in DOMAIN job.bars :
            Cols(DrawnBoxes[i].x, DrawnBoxes[i].w)
                = MirrorCols(UnflippedCols(job.bars[i], dims[1]), dims[1])

\* C9: the flip step is in the chain, and region x-coordinates are reflected,
\* only if the job's mirror flag is set; with mirror = false there is no flip
\* and every region is placed at its unreflected x-coordinate.
C9_MirrorOnlyIfFlag ==
    Built =>
        /\ HasFlip => job.mirror
        /\ ~job.mirror =>
              \A i \in DOMAIN job.bars :
                  DrawnBoxes[i].x
                      = ClampPos(IntOf(job.bars[i].x * dims[1], BarDen), dims[1])

\* the place of a step in the claimed precedence (0: a step the claim leaves open)
Rank(s) ==
    CASE s.op = "setpts" -> 1
      [] s.op = "color" -> 2
      [] s.op = "hflip" -> 3
      [] s.op = "drawbox" -> 4
      [] s.op = "zoom_crop" -> 5
      [] OTHER -> 0

Count(op) == Cardinality({i \in DOMAIN filters : filters[i].op = op})

\* C10: in the chain built for any job the steps appear in the order timestamp
\* rescale, color grade, mirror, every occlusion box, zoom crop; no box is
\* placed before the mirror step or after the zoom crop.
C10_StepOrder ==
    Built =>
        /\ filters[1].op = "setpts"
        /\ Count("setpts") = 1 /\ Count("hflip") = 1 /\ Count("zoom_crop") = 1
        /\ Count("color") = (IF job.filter_name \in FilterPresets THEN 1 ELSE 0)
        /\ Count("drawbox") = Len(job.bars)
        /\ \A i, j \in DOMAIN filters :
              (i < j /\ Rank(filters[i]) > 0 /\ Rank(filters[j]) > 0)
                  => Rank(filters[i]) <= Rank(filters[j])

\* C10 witness: a chain with a color grade and several boxes has been built
C10_Witness ==
    /\ Built
    /\ Count("color") = 1
    /\ Count("drawbox") >= 2

====
